---------------------------- MODULE Spec2Model ----------------------------
(***************************************************************************)
(* A model of meccz: the great-circle Qibla calculator (src/src/qibla.rs)  *)
(* the coordinate parser (src/src/geocoding.rs), the application that      *)
(* resolves an input to a location (src/src/core.rs) and the C interface   *)
(* with its allocations (src/src/ffi.rs).                                  *)
(*                                                                         *)
(* Angles are binary floating-point numbers with MantBits significant bits *)
(* and a smallest step of 2^-FracBits degree.  An angle is held as the     *)
(* integer count of such steps; a count is a value of the format when it   *)
(* needs at most MantBits significant bits.  Additions and subtractions    *)
(* round to the nearest value of the format, ties to even, as f64 does.    *)
(* Comparisons, negation, abs and the remainder are exact, as in f64.      *)
(* Distances are integers in hundredths of a kilometre.                    *)
(***************************************************************************)
EXTENDS Integers, Sequences, FiniteSets, TLC

\* op is the operation in progress, arg its input, env what its
\* collaborators (math library, geocoding service) answer, ret its result,
\* calls the calls it made to its collaborators, in order, and heap the
\* allocations of the C interface, addressed by their index (0 is null).
VARIABLES op, arg, env, ret, calls, heap

vars == <<op, arg, env, ret, calls, heap>>

---------------------------------------------------------------------------
(* The floating-point format of the angles.                                *)

MantBits == 24

FracBits == 20

RECURSIVE Pow2(_)
Pow2(n) == IF n = 0 THEN 1 ELSE 2 * Pow2(n - 1)

\* One degree, in steps.
Unit == Pow2(FracBits)

Abs(x) == IF x < 0 THEN -x ELSE x

\* The spacing of the format's values around magnitude a.
RECURSIVE Quantum(_, _)
Quantum(a, q) == IF a \div q < Pow2(MantBits) THEN q ELSE Quantum(a, 2 * q)

\* Round to nearest, ties to even.
Round(x) ==
    LET a == Abs(x)
        q == Quantum(a, 1)
        m == a \div q
        r == a % q
        up == IF 2 * r > q \/ (2 * r = q /\ m % 2 = 1) THEN 1 ELSE 0
        v == (m + up) * q
    IN  IF x < 0 THEN -v ELSE v

fadd(x, y) == Round(x + y)

fsub(x, y) == Round(x - y)

\* Rust's % on f64: the remainder of the truncated division, exact, with the
\* sign of the dividend.
frem(x, y) == IF x < 0 THEN -(Abs(x) % Abs(y)) ELSE x % Abs(y)

\* The float nearest a decimal literal whole.frac4 (four decimal places).
FromDecimal(whole, frac4) ==
    Round(whole * Unit + ((frac4 * Pow2(18)) \div 10000) * Pow2(FracBits - 18))

\* n * 11.25 degrees: the sixteen headings and the midpoints between them.
Sixteenths(n) == n * 45 * (Unit \div 4)

Deg360 == 360 * Unit

Deg180 == 180 * Unit

Deg90 == 90 * Unit

\* The largest value of the format below x, the smallest above x.
Below(x) == IF x > 0 THEN x - Quantum(x - 1, 1) ELSE x - Quantum(-x, 1)

Above(x) == IF x < 0 THEN x + Quantum(-x - 1, 1) ELSE x + Quantum(x, 1)

---------------------------------------------------------------------------
(* src/src/qibla.rs: GreatCircleCalculator                                 *)

EARTH_RADIUS_KM == 6371

\* fn normalize_bearing(bearing: f64) -> f64
normalize_bearing(bearing) ==
    LET normalized == frem(bearing, Deg360)
    IN  IF normalized < 0 THEN fadd(normalized, Deg360) ELSE normalized

\* fn bearing_to_direction(bearing: f64) -> String; "fallback" marks the
\* `_` arm, whose label is "N" as well.
direction_arm_strict_north(b) ==
    CASE b > Sixteenths(30) \/ b < Sixteenths(2)   -> <<"N", "arm1">>
      [] b >= Sixteenths(2)  /\ b < Sixteenths(6)  -> <<"NE", "arm2">>
      [] b >= Sixteenths(6)  /\ b < Sixteenths(10) -> <<"E", "arm3">>
      [] b >= Sixteenths(10) /\ b < Sixteenths(14) -> <<"SE", "arm4">>
      [] b >= Sixteenths(14) /\ b < Sixteenths(18) -> <<"S", "arm5">>
      [] b >= Sixteenths(18) /\ b < Sixteenths(22) -> <<"SW", "arm6">>
      [] b >= Sixteenths(22) /\ b < Sixteenths(26) -> <<"W", "arm7">>
      [] b >= Sixteenths(26) /\ b < Sixteenths(30) -> <<"NW", "arm8">>
      [] OTHER -> <<"N", "fallback">>

direction_arm_closed_above(b) ==
    CASE b > Sixteenths(30) \/ b <= Sixteenths(2)   -> <<"N", "arm1">>
      [] b > Sixteenths(2)  /\ b <= Sixteenths(6)  -> <<"NE", "arm2">>
      [] b > Sixteenths(6)  /\ b <= Sixteenths(10) -> <<"E", "arm3">>
      [] b > Sixteenths(10) /\ b <= Sixteenths(14) -> <<"SE", "arm4">>
      [] b > Sixteenths(14) /\ b <= Sixteenths(18) -> <<"S", "arm5">>
      [] b > Sixteenths(18) /\ b <= Sixteenths(22) -> <<"SW", "arm6">>
      [] b > Sixteenths(22) /\ b <= Sixteenths(26) -> <<"W", "arm7">>
      [] b > Sixteenths(26) /\ b <= Sixteenths(30) -> <<"NW", "arm8">>
      [] OTHER -> <<"N", "fallback">>

direction_arm(b) ==
    CASE b >= Sixteenths(30) \/ b < Sixteenths(2)  -> <<"N", "arm1">>
      [] b >= Sixteenths(2)  /\ b < Sixteenths(6)  -> <<"NE", "arm2">>
      [] b >= Sixteenths(6)  /\ b < Sixteenths(10) -> <<"E", "arm3">>
      [] b >= Sixteenths(10) /\ b < Sixteenths(14) -> <<"SE", "arm4">>
      [] b >= Sixteenths(14) /\ b < Sixteenths(18) -> <<"S", "arm5">>
      [] b >= Sixteenths(18) /\ b < Sixteenths(22) -> <<"SW", "arm6">>
      [] b >= Sixteenths(22) /\ b < Sixteenths(26) -> <<"W", "arm7">>
      [] b >= Sixteenths(26) /\ b < Sixteenths(30) -> <<"NW", "arm8">>
      [] OTHER -> <<"N", "fallback">>

bearing_to_direction(bearing) == direction_arm(bearing)[1]

\* Decimal numbers m / 10^k, kept in lowest terms of ten: the coordinates.
RECURSIVE Fin(_, _)
Fin(n, d) ==
    IF d > 1 /\ n % 10 = 0 THEN Fin(n \div 10, d \div 10)
    ELSE [kind |-> "fin", n |-> n, d |-> d]

KAABA_LATITUDE == Fin(214225, 10000)

KAABA_LONGITUDE == Fin(398262, 10000)

\* 2 * PI * EARTH_RADIUS_KM in hundredths of a kilometre (PI as 355/113).
Circumference == (EARTH_RADIUS_KM * 2 * 35500) \div 113

\* fn calculate_distance: the haversine distance.  Equal points give
\* delta_lat = delta_lon = 0, so a = 0 and the distance is exactly 0;
\* otherwise the result is what the sin/cos/sqrt/asin chain evaluates to,
\* haversine_km, a value in (0, PI * R].
calculate_distance(lat1, lon1, lat2, lon2, haversine_km) ==
    IF lat1 = lat2 /\ lon1 = lon2 THEN 0 ELSE haversine_km

\* fn calculate_qibla.  libm holds what the math library returns for this
\* location: atan2_deg, the bearing in degrees before normalization, and
\* haversine_km.  At the Kaaba y = 0 and x = 0 exactly, and atan2(0, 0) = 0.
calculate_qibla(location, libm) ==
    LET bearing ==
            IF location.latitude = KAABA_LATITUDE
               /\ location.longitude = KAABA_LONGITUDE
            THEN 0 ELSE libm.atan2_deg
        normalized_bearing == normalize_bearing(bearing)
        distance == calculate_distance(location.latitude, location.longitude,
                                       KAABA_LATITUDE, KAABA_LONGITUDE,
                                       libm.haversine_km)
    IN  [bearing |-> normalized_bearing,
         direction |-> bearing_to_direction(normalized_bearing),
         distance_km |-> distance]

\* let compass_directions = [("N", 0.0), ("NNE", 22.5), ...]
compass_directions_eight ==
    << <<"N", Sixteenths(0)>>,    <<"NE", Sixteenths(4)>>,
       <<"E", Sixteenths(8)>>,    <<"SE", Sixteenths(12)>>,
       <<"S", Sixteenths(16)>>,   <<"SW", Sixteenths(20)>>,
       <<"W", Sixteenths(24)>>,   <<"NW", Sixteenths(28)>> >>

compass_directions ==
    << <<"N", Sixteenths(0)>>,    <<"NNE", Sixteenths(2)>>,
       <<"NE", Sixteenths(4)>>,   <<"ENE", Sixteenths(6)>>,
       <<"E", Sixteenths(8)>>,    <<"ESE", Sixteenths(10)>>,
       <<"SE", Sixteenths(12)>>,  <<"SSE", Sixteenths(14)>>,
       <<"S", Sixteenths(16)>>,   <<"SSW", Sixteenths(18)>>,
       <<"SW", Sixteenths(20)>>,  <<"WSW", Sixteenths(22)>>,
       <<"W", Sixteenths(24)>>,   <<"WNW", Sixteenths(26)>>,
       <<"NW", Sixteenths(28)>>,  <<"NNW", Sixteenths(30)>> >>

\* let mut min_angular_diff = f64::MAX (the largest number the model holds).
F64_MAX == 2147483647

\* let mut angular_diff = (bearing - qibla.bearing).abs();
\* if angular_diff > 180.0 { angular_diff = 360.0 - angular_diff; }
angular_difference_no_fold(bearing, qibla_bearing) ==
    Abs(fsub(bearing, qibla_bearing))

angular_difference(bearing, qibla_bearing) ==
    LET angular_diff == Abs(fsub(bearing, qibla_bearing))
    IN  IF angular_diff > Deg180 THEN fsub(Deg360, angular_diff) ELSE angular_diff

\* if angular_diff < min_angular_diff { ... }
is_closer_or_equal(angular_diff, min_angular_diff) ==
    angular_diff <= min_angular_diff

is_closer(angular_diff, min_angular_diff) == angular_diff < min_angular_diff

\* First pass: find the optimal direction.
RECURSIVE first_pass(_, _, _, _)
first_pass(i, qibla_bearing, min_angular_diff, optimal_direction_name) ==
    IF i > Len(compass_directions)
    THEN [min_angular_diff |-> min_angular_diff,
          optimal_direction_name |-> optimal_direction_name]
    ELSE LET angular_diff ==
                 angular_difference(compass_directions[i][2], qibla_bearing)
         IN  IF is_closer(angular_diff, min_angular_diff)
             THEN first_pass(i + 1, qibla_bearing, angular_diff,
                             compass_directions[i][1])
             ELSE first_pass(i + 1, qibla_bearing, min_angular_diff,
                             optimal_direction_name)

\* (angular_diff * PI / 180.0).cos() for 0 <= angular_diff < 90, in
\* thousandths: Bhaskara's rational approximation on hundredths of a degree,
\* exact at 0, within 0.2 percent elsewhere, decreasing to 0 at 90.
cos_of_degrees(angular_diff) ==
    LET c == ((angular_diff \div Pow2(FracBits - 7)) * 100) \div 128
    IN  (324000000 - 4 * c * c) \div ((324000000 + c * c) \div 1000)

Max(x, y) == IF x > y THEN x ELSE y

\* let short_distance = if angular_diff < 90.0 { .. } else if angular_diff >
\* 90.0 { .. } else { .. }; the divisor is cos(..).max(0.001).
short_distance_no_perpendicular(angular_diff, distance_km) ==
    IF angular_diff < Deg90
    THEN (distance_km * 1000) \div Max(cos_of_degrees(angular_diff), 1)
    ELSE Circumference - distance_km

short_distance(angular_diff, distance_km) ==
    IF angular_diff < Deg90
    THEN (distance_km * 1000) \div Max(cos_of_degrees(angular_diff), 1)
    ELSE IF angular_diff > Deg90
    THEN Circumference - distance_km
    ELSE Circumference

\* let long_distance = EARTH_RADIUS_KM * 2.0 * PI - qibla.distance_km;
long_distance_reversed(distance_km) == distance_km - Circumference

long_distance_half(distance_km) == Circumference \div 2 - distance_km

long_distance(distance_km) == Circumference - distance_km

\* let is_optimal = direction == &optimal_direction_name;
is_optimal_by_difference(direction, angular_diff, found) ==
    angular_diff = found.min_angular_diff

is_optimal(direction, angular_diff, found) ==
    direction = found.optimal_direction_name

\* Second pass: one entry per compass direction.
compass_entry(i, qibla, found) ==
    LET direction == compass_directions[i][1]
        bearing == compass_directions[i][2]
        angular_diff == angular_difference(bearing, qibla.bearing)
    IN  [direction |-> direction,
         bearing |-> bearing,
         angular_difference |-> angular_diff,
         short_path_distance_km |-> short_distance(angular_diff, qibla.distance_km),
         long_path_distance_km |-> long_distance(qibla.distance_km),
         is_optimal_direction |-> is_optimal(direction, angular_diff, found)]

\* fn calculate_compass_table
calculate_compass_table(location, libm) ==
    LET qibla == calculate_qibla(location, libm)
        found == first_pass(1, qibla.bearing, F64_MAX, "")
    IN  [location |-> location,
         qibla_bearing |-> qibla.bearing,
         direct_distance_km |-> qibla.distance_km,
         entries |-> [i \in 1..Len(compass_directions) |->
                         compass_entry(i, qibla, found)]]

---------------------------------------------------------------------------
(* src/src/geocoding.rs: parse_coordinates.  A string is a sequence of     *)
(* one-character strings.                                                  *)

\* input.split(','): the fields between the commas ("" gives one empty field).
RECURSIVE split(_)
split(s) ==
    IF \A i \in 1..Len(s) : s[i] # ","
    THEN <<s>>
    ELSE LET k == CHOOSE i \in 1..Len(s) :
                      s[i] = "," /\ \A j \in 1..(i - 1) : s[j] # ","
         IN  <<SubSeq(s, 1, k - 1)>> \o split(SubSeq(s, k + 1, Len(s)))

is_whitespace(c) == c \in {" "}

\* str::trim
RECURSIVE trim_start(_)
trim_start(s) ==
    IF s # <<>> /\ is_whitespace(Head(s)) THEN trim_start(Tail(s)) ELSE s

RECURSIVE trim_end(_)
trim_end(s) ==
    IF s # <<>> /\ is_whitespace(s[Len(s)])
    THEN trim_end(SubSeq(s, 1, Len(s) - 1)) ELSE s

trim(s) == trim_end(trim_start(s))

Digits == {"0", "1", "2", "3", "4", "5", "6", "7", "8", "9"}

DigitValue(c) ==
    CASE c = "0" -> 0 [] c = "1" -> 1 [] c = "2" -> 2 [] c = "3" -> 3
      [] c = "4" -> 4 [] c = "5" -> 5 [] c = "6" -> 6 [] c = "7" -> 7
      [] c = "8" -> 8 [] c = "9" -> 9

ToLower(c) ==
    CASE c = "N" -> "n" [] c = "A" -> "a" [] c = "I" -> "i" [] c = "F" -> "f"
      [] c = "T" -> "t" [] c = "Y" -> "y" [] OTHER -> c

RECURSIVE DigitsValue(_, _)
DigitsValue(s, acc) ==
    IF s = <<>> THEN acc ELSE DigitsValue(Tail(s), 10 * acc + DigitValue(Head(s)))

RECURSIVE Pow10(_)
Pow10(n) == IF n = 0 THEN 1 ELSE 10 * Pow10(n - 1)

NaN == [kind |-> "nan", n |-> 0, d |-> 1]

Infinity(negative) == [kind |-> "inf", n |-> IF negative THEN -1 ELSE 1, d |-> 1]

NoNumber == [kind |-> "none", n |-> 0, d |-> 1]

\* A decimal number times ten to the power e.
Scaled(n, d, e) == IF e >= 0 THEN Fin(n * Pow10(e), d) ELSE Fin(n, d * Pow10(-e))

\* str::parse::<f64>: Sign? ('inf' | 'infinity' | 'nan' | Number), letters in
\* either case; Number is (Digit+ | Digit+ '.' Digit* | Digit* '.' Digit+)
\* followed by an optional exponent 'e' Sign? Digit+.  The empty string and
\* every other string are the two kinds of ParseFloatError.
parse_f64(s) ==
    LET signed == s # <<>> /\ Head(s) \in {"+", "-"}
        negative == s # <<>> /\ Head(s) = "-"
        body == IF signed THEN Tail(s) ELSE s
        lower == [i \in 1..Len(body) |-> ToLower(body[i])]
        es == { i \in 1..Len(body) : body[i] \in {"e", "E"} }
        e == IF es = {} THEN Len(body) + 1
             ELSE CHOOSE i \in es : \A j \in es : i <= j
        number == SubSeq(body, 1, e - 1)
        exponent == SubSeq(body, e + 1, Len(body))
        exp_signed == exponent # <<>> /\ Head(exponent) \in {"+", "-"}
        exp_digits == IF exp_signed THEN Tail(exponent) ELSE exponent
        exp_value == IF exponent # <<>> /\ Head(exponent) = "-"
                     THEN -DigitsValue(exp_digits, 0)
                     ELSE DigitsValue(exp_digits, 0)
        dots == { i \in 1..Len(number) : number[i] = "." }
        dot == IF dots = {} THEN Len(number) + 1 ELSE CHOOSE i \in dots : TRUE
        integral == SubSeq(number, 1, dot - 1)
        fraction == SubSeq(number, dot + 1, Len(number))
        magnitude == DigitsValue(integral \o fraction, 0)
    IN  IF s = <<>>
        THEN [ok |-> FALSE, value |-> NoNumber,
              error |-> "cannot parse float from empty string"]
        ELSE IF lower = <<"i", "n", "f">>
                \/ lower = <<"i", "n", "f", "i", "n", "i", "t", "y">>
        THEN [ok |-> TRUE, value |-> Infinity(negative), error |-> ""]
        ELSE IF lower = <<"n", "a", "n">>
        THEN [ok |-> TRUE, value |-> NaN, error |-> ""]
        ELSE IF /\ Cardinality(dots) <= 1
                /\ Len(integral) + Len(fraction) >= 1
                /\ \A i \in 1..Len(number) : i = dot \/ number[i] \in Digits
                /\ es # {} => /\ exp_digits # <<>>
                              /\ \A i \in 1..Len(exp_digits) :
                                     exp_digits[i] \in Digits
        THEN [ok |-> TRUE,
              value |-> Scaled(IF negative THEN -magnitude ELSE magnitude,
                               Pow10(Len(fraction)),
                               IF es = {} THEN 0 ELSE exp_value),
              error |-> ""]
        ELSE [ok |-> FALSE, value |-> NoNumber, error |-> "invalid float literal"]

\* (lo..=hi).contains(&v): false for NaN and the infinities.
range_contains(lo, hi, v) ==
    v.kind = "fin" /\ lo * v.d <= v.n /\ v.n <= hi * v.d

\* if parts.len() != 2
wrong_field_count_below(parts) == Len(parts) < 2

wrong_field_count(parts) == Len(parts) # 2

NoLocation == [latitude |-> NoNumber, longitude |-> NoNumber]

Err(message) == [ok |-> FALSE, location |-> NoLocation, error |-> message]

\* The error of a failed range check.
range_error_swapped(field) ==
    IF field = "latitude"
    THEN "Longitude must be between -180 and 180 degrees"
    ELSE "Latitude must be between -90 and 90 degrees"

range_error(field) ==
    IF field = "latitude"
    THEN "Latitude must be between -90 and 90 degrees"
    ELSE "Longitude must be between -180 and 180 degrees"

\* pub fn parse_coordinates(input: &str) -> Result<Location>
parse_coordinates(input) ==
    LET parts == split(input)
    IN  IF wrong_field_count(parts)
        THEN Err("Expected format: latitude,longitude")
        ELSE
        LET latitude == parse_f64(trim(parts[1]))
            longitude == parse_f64(trim(parts[2]))
        IN  IF ~latitude.ok THEN Err(latitude.error)
            ELSE IF ~longitude.ok THEN Err(longitude.error)
            ELSE IF ~range_contains(-90, 90, latitude.value)
            THEN Err(range_error("latitude"))
            ELSE IF ~range_contains(-180, 180, longitude.value)
            THEN Err(range_error("longitude"))
            ELSE [ok |-> TRUE,
                  location |-> [latitude |-> latitude.value,
                                longitude |-> longitude.value],
                  error |-> ""]

---------------------------------------------------------------------------
(* src/src/geocoding.rs: NominatimGeocoder, and src/src/core.rs: MeccaApp.  *)
(* An operation that calls a collaborator returns its result together with  *)
(* the calls it made, in order.                                             *)

Call(callee, with) == [callee |-> callee, with |-> with]

\* The String of a sequence of characters.
RECURSIVE to_string(_)
to_string(s) == IF s = <<>> THEN "" ELSE Head(s) \o to_string(Tail(s))

\* NominatimGeocoder::geocode.  response is what the request to the server
\* gives: a failure of the request, or the list of results of the JSON body,
\* each with its lat and lon as text.
geocode(address, response) ==
    IF response.failed
    THEN Err("error sending request")
    ELSE IF response.results = <<>>
    THEN Err("Location not found: " \o to_string(address))
    ELSE
    LET result == response.results[1]
        latitude == parse_f64(result.lat)
        longitude == parse_f64(result.lon)
    IN  IF ~latitude.ok THEN Err(latitude.error)
        ELSE IF ~longitude.ok THEN Err(longitude.error)
        ELSE [ok |-> TRUE,
              location |-> [latitude |-> latitude.value,
                            longitude |-> longitude.value],
              error |-> ""]

\* MeccaApp::get_location, given what parse_coordinates(input) returned:
\* if let Ok(location) = parsed { Ok(location) } else { geocode(input) }
get_location_geocoding_always(parsed, input, response) ==
    [result |-> IF parsed.ok THEN parsed ELSE geocode(input, response),
     calls |-> <<Call("parse_coordinates", input), Call("geocode", input)>>]

get_location_from(parsed, input, response) ==
    IF parsed.ok
    THEN [result |-> parsed,
          calls |-> <<Call("parse_coordinates", input)>>]
    ELSE [result |-> geocode(input, response),
          calls |-> <<Call("parse_coordinates", input),
                      Call("geocode", input)>>]

\* MeccaApp::get_location
get_location(input, response) ==
    get_location_from(parse_coordinates(input), input, response)

NoQibla == [bearing |-> 0, direction |-> "", distance_km |-> 0]

\* Application::run, given what get_location(input) returned:
\* let location = ..?; Ok(self.qibla_calculator.calculate_qibla(&location))
run_from(location, libm) ==
    IF ~location.result.ok
    THEN [result |-> [ok |-> FALSE, qibla |-> NoQibla,
                      error |-> location.result.error],
          calls |-> location.calls]
    ELSE [result |-> [ok |-> TRUE,
                      qibla |-> calculate_qibla(location.result.location,
                                                libm),
                      error |-> ""],
          calls |-> location.calls
                    \o <<Call("calculate_qibla", location.result.location)>>]

\* Application::run for MeccaApp
run(input, response, libm) == run_from(get_location(input, response), libm)

---------------------------------------------------------------------------
(* src/src/ffi.rs: the C interface.  The heap is the sequence of the        *)
(* allocations made so far; the address of an allocation is its index and   *)
(* the null pointer is 0.  An allocation keeps its type, its value, the     *)
(* capacity it was allocated with, whether it is live, how many times it    *)
(* was freed and whether it was freed with another capacity than its own.   *)

null == 0

\* Box::into_raw(Box::new(..)), CString::into_raw, Vec::with_capacity: the
\* new allocation is the last of the heap.
alloc(h, type, value, capacity) ==
    Append(h, [type |-> type, value |-> value, capacity |-> capacity,
               live |-> TRUE, frees |-> 0, mismatched |-> FALSE])

\* Box::from_raw, CString::from_raw, Vec::from_raw_parts, dropped.
dealloc(h, p, capacity) ==
    [h EXCEPT ![p] = [@ EXCEPT !.live = FALSE,
                               !.frees = @ + 1,
                               !.mismatched = @ \/ capacity # h[p].capacity]]

\* CString::new fails on a text that holds a NUL byte.  The texts converted
\* are literals of the source, direction names and messages: none holds one.
contains_nul(text) == FALSE

\* if !(-90.0..=90.0).contains(&latitude)
\*     || !(-180.0..=180.0).contains(&longitude)
ffi_invalid_by_comparison(latitude, longitude) ==
    LET below(v, lo) == \/ v.kind = "fin" /\ v.n < lo * v.d
                        \/ v.kind = "inf" /\ v.n < 0
        above(v, hi) == \/ v.kind = "fin" /\ v.n > hi * v.d
                        \/ v.kind = "inf" /\ v.n > 0
    IN  \/ below(latitude, -90) \/ above(latitude, 90)
        \/ below(longitude, -180) \/ above(longitude, 180)

ffi_invalid(latitude, longitude) ==
    \/ ~range_contains(-90, 90, latitude)
    \/ ~range_contains(-180, 180, longitude)

\* The QiblaResult of a failure, with its message.
qibla_failure(h, message) ==
    LET h1 == alloc(h, "CString", message, 0)
        error_msg == Len(h1)
        h2 == alloc(h1, "QiblaResult",
                    [bearing |-> 0, distance_km |-> 0, direction |-> null,
                     success |-> FALSE, error_message |-> error_msg], 0)
    IN  [heap |-> h2, ptr |-> Len(h2)]

\* pub extern "C" fn calculate_qibla_ffi
calculate_qibla_ffi(h, latitude, longitude, libm) ==
    LET location == [latitude |-> latitude, longitude |-> longitude]
    IN  IF ffi_invalid(latitude, longitude)
        THEN [calls |-> <<>>] @@
             qibla_failure(h, "Invalid coordinates: latitude must be between -90 and 90, longitude between -180 and 180")
        ELSE
        LET qibla == calculate_qibla(location, libm)
            made == <<Call("calculate_qibla", location)>>
        IN  IF contains_nul(qibla.direction)
            THEN [calls |-> made] @@
                 qibla_failure(h, "Failed to convert direction string")
            ELSE
            LET h1 == alloc(h, "CString", qibla.direction, 0)
                direction_cstring == Len(h1)
                h2 == alloc(h1, "QiblaResult",
                            [bearing |-> qibla.bearing,
                             distance_km |-> qibla.distance_km,
                             direction |-> direction_cstring,
                             success |-> TRUE,
                             error_message |-> null], 0)
            IN  [calls |-> made, heap |-> h2, ptr |-> Len(h2)]

\* impl Drop for QiblaResult
drop_QiblaResult(h, self) ==
    LET h1 == IF h[self].value.direction # null
              THEN dealloc(h, h[self].value.direction, 0) ELSE h
    IN  IF h[self].value.error_message # null
        THEN dealloc(h1, h[self].value.error_message, 0) ELSE h1

\* pub extern "C" fn free_qibla_result: the box is dropped, so its value is,
\* and then its memory is released.
free_qibla_result(h, result) ==
    IF result # null
    THEN dealloc(drop_QiblaResult(h, result), result, 0)
    ELSE h

\* for entry in table.entries { .. c_entries.push(CompassEntryC { .. }) }:
\* c_entries is the address of the vector's buffer, which holds the entries
\* pushed so far.
RECURSIVE convert_entries(_, _, _, _)
convert_entries(h, c_entries, entries, i) ==
    IF i > Len(entries) THEN h
    ELSE IF contains_nul(entries[i].direction)
    THEN convert_entries(h, c_entries, entries, i + 1)
    ELSE
    LET h1 == alloc(h, "CString", entries[i].direction, 0)
        entry == [direction |-> Len(h1),
                  bearing |-> entries[i].bearing,
                  angular_difference |-> entries[i].angular_difference,
                  short_path_distance_km |-> entries[i].short_path_distance_km,
                  long_path_distance_km |-> entries[i].long_path_distance_km,
                  is_optimal_direction |-> entries[i].is_optimal_direction]
        h2 == [h1 EXCEPT ![c_entries].value = Append(@, entry)]
    IN  convert_entries(h2, c_entries, entries, i + 1)

\* The CompassTableC of a failure.
table_failure(h) ==
    [calls |-> <<>>,
     heap |-> alloc(alloc(h, "CString", "Invalid coordinates", 0),
                    "CompassTableC",
                    [latitude |-> Fin(0, 1), longitude |-> Fin(0, 1),
                     qibla_bearing |-> 0, direct_distance_km |-> 0,
                     entries |-> null, entries_count |-> 0,
                     success |-> FALSE, error_message |-> Len(h) + 1], 0),
     ptr |-> Len(h) + 2]

\* let entries_ptr = c_entries.as_mut_ptr();
\* let entries_count = c_entries.len();
\* Box::into_raw(Box::new(CompassTableC { .. })), on the heap h that holds
\* the converted entries.
table_success(h, c_entries, table) ==
    [calls |-> <<Call("calculate_compass_table", table.location)>>,
     heap |-> alloc(h, "CompassTableC",
                    [latitude |-> table.location.latitude,
                     longitude |-> table.location.longitude,
                     qibla_bearing |-> table.qibla_bearing,
                     direct_distance_km |-> table.direct_distance_km,
                     entries |-> c_entries,
                     entries_count |-> Len(h[c_entries].value),
                     success |-> TRUE, error_message |-> null], 0),
     ptr |-> Len(h) + 1]

\* let mut c_entries = Vec::with_capacity(table.entries.len()); and the
\* conversion of the table's entries into it.
table_to_c(h, table) ==
    table_success(convert_entries(alloc(h, "Vec<CompassEntryC>", <<>>,
                                        Len(table.entries)),
                                  Len(h) + 1, table.entries, 1),
                  Len(h) + 1, table)

\* pub extern "C" fn calculate_compass_table_ffi
calculate_compass_table_ffi(h, latitude, longitude, libm) ==
    IF ffi_invalid(latitude, longitude)
    THEN table_failure(h)
    ELSE table_to_c(h, calculate_compass_table(
                           [latitude |-> latitude, longitude |-> longitude],
                           libm))

\* for entry in entries { if !entry.direction.is_null() { .. } }
RECURSIVE drop_entries(_, _, _)
drop_entries(h, entries, i) ==
    IF i > Len(entries) THEN h
    ELSE IF entries[i].direction # null
    THEN drop_entries(dealloc(h, entries[i].direction, 0), entries, i + 1)
    ELSE drop_entries(h, entries, i + 1)

\* if !table.entries.is_null() { let entries = Vec::from_raw_parts(
\* table.entries, table.entries_count, table.entries_count); .. }: the
\* vector takes entries_count as its length and as its capacity.
drop_vec_shallow(h, box) ==
    IF box.entries # null
    THEN dealloc(h, box.entries, box.entries_count)
    ELSE h

drop_vec(h, box) ==
    IF box.entries # null
    THEN dealloc(drop_entries(h, SubSeq(h[box.entries].value, 1,
                                        box.entries_count), 1),
                 box.entries, box.entries_count)
    ELSE h

\* if !table.error_message.is_null() { .. }
drop_message(h, box) ==
    IF box.error_message # null THEN dealloc(h, box.error_message, 0) ELSE h

\* pub extern "C" fn free_compass_table: the box is dropped last.
free_compass_table(h, table) ==
    IF table = null THEN h
    ELSE dealloc(drop_vec(drop_message(h, h[table].value), h[table].value),
                 table, 0)

---------------------------------------------------------------------------
(* Inputs                                                                   *)

\* The raw bearings the atan2 step can produce, in [-180, 180]: every
\* multiple of 11.25, its two neighbours in the format, and the powers of two
\* down to the smallest step, of either sign.
RawBearings ==
    LET grid == { Sixteenths(n) : n \in -16..16 }
        near == { Below(g) : g \in grid } \cup { Above(g) : g \in grid }
        tiny == { Pow2(e) : e \in 0..FracBits } \cup { -Pow2(e) : e \in 0..FracBits }
    IN  { r \in grid \cup near \cup tiny : -Deg180 <= r /\ r <= Deg180 }

\* Bearings in [0, 360) handed to bearing_to_direction.
Bearings ==
    LET grid == { Sixteenths(n) : n \in 0..31 }
        near == { Below(g) : g \in grid \cup {Deg360} } \cup { Above(g) : g \in grid }
    IN  { b \in grid \cup near \cup {FromDecimal(337, 4999)} : 0 <= b /\ b < Deg360 }

\* Valid locations: the Kaaba, Paris, a point just east of the Kaaba's
\* meridian, the poles' corners of the range.
Locations ==
    { [latitude |-> KAABA_LATITUDE, longitude |-> KAABA_LONGITUDE],
      [latitude |-> Fin(488566, 10000), longitude |-> Fin(23522, 10000)],
      [latitude |-> Fin(0, 1), longitude |-> Fin(398263, 10000)],
      [latitude |-> Fin(90, 1), longitude |-> Fin(-180, 1)],
      [latitude |-> Fin(-90, 1), longitude |-> Fin(180, 1)] }

\* Haversine results for points other than the Kaaba, in (0, PI * R]: ten
\* metres, Paris, a quarter of the circumference and the antipode.
Distances == { 1, 449500, Circumference \div 4, Circumference \div 2 }

MathLibrary == [atan2_deg : RawBearings, haversine_km : Distances]

\* The longest input built from the alphabet.
MaxInputLen == 5

Alphabet == {"9", ".", "-", ",", " ", "x"}

\* Inputs of the repository's tests and of the specification's examples, and
\* the cases the alphabet does not spell: both bounds, the non-finite
\* literals, signs, bare dots and exponents.
ExampleInputs ==
    { <<"4", "8", ".", "8", "5", "6", "6", ",", " ", "2", ".", "3", "5", "2", "2">>,
      <<" ", " ", "4", "0", ".", "7", "1", "2", "8", " ", " ", ",", " ", " ", "-", "7", "4", ".", "0", "0", "6", "0", " ", " ">>,
      <<"4", "8", ".", "8", "5", "6", "6">>,
      <<"4", "8", ".", "8", "5", "6", "6", ",", " ", "2", ".", "3", "5", "2", "2", ",", " ", "1", "0", "0">>,
      <<"i", "n", "v", "a", "l", "i", "d", ",", " ", "c", "o", "o", "r", "d", "i", "n", "a", "t", "e", "s">>,
      <<"9", "1", ".", "0", ",", " ", "0", ".", "0">>,
      <<"-", "9", "1", ".", "0", ",", " ", "0", ".", "0">>,
      <<"0", ".", "0", ",", " ", "1", "8", "1", ".", "0">>,
      <<"0", ".", "0", ",", " ", "-", "1", "8", "1", ".", "0">>,
      <<"9", "1", ".", "0", ",", "0", ".", "0">>,
      <<"4", "8", ".", "8", "5", "6", "6", ",", "2", ".", "3", "5", "2", "2">>,
      <<"2", "1", ".", "4", "2", "2", "5", ",", "3", "9", ".", "8", "2", "6", "2">>,
      <<"9", "0", ",", "1", "8", "0">>,
      <<"-", "9", "0", ",", "-", "1", "8", "0">>,
      <<"9", "0", ".", "0", "0", "0", "1", ",", "0">>,
      <<"0", ",", "1", "8", "0", ".", "0", "0", "0", "1">>,
      <<"9", "1", ",", "1", "8", "1">>,
      <<"9", "1", ",", "x">>,
      <<"n", "a", "n", ",", "0">>,
      <<"0", ",", "N", "a", "N">>,
      <<"i", "n", "f", ",", "0">>,
      <<"0", ",", "-", "i", "n", "f">>,
      <<"-", "I", "n", "f", "i", "n", "i", "t", "y", ",", "0">>,
      <<"+", "1", ",", "+", "1", ".">>,
      <<"1", ".", ",", ".", "5">>,
      <<"-", "0", ",", "0">>,
      <<"9", "e", "1", ",", "1", ".", "8", "E", "2">>,
      <<"1", "e", "2", ",", "0">>,
      <<"0", ",", "1", "8", "0", "1", "e", "-", "1">>,
      <<"e", "1", ",", "0">>,
      <<"1", "e", ",", "0">>,
      <<"1", "e", "+", ",", "0">>,
      <<"9", ".", "e", "+", "1", ",", ".", "5", "e", "-", "1">> }

Inputs ==
    UNION { [1..k -> Alphabet] : k \in 0..MaxInputLen } \cup ExampleInputs

\* Place names, as the tests give them.
PlaceNames ==
    { <<"p", "a", "r", "i", "s">>,
      <<"u", "n", "k", "n", "o", "w", "n", " ", "c", "i", "t", "y">> }

\* What MeccaApp is asked to resolve.
Queries ==
    UNION { [1..k -> Alphabet] : k \in 0..(MaxInputLen - 2) }
        \cup ExampleInputs \cup PlaceNames

Found(lat, lon) == [failed |-> FALSE, results |-> <<[lat |-> lat, lon |-> lon]>>]

\* What the server answers: a failed request, no result, Paris, the Kaaba,
\* a latitude and a longitude out of range, a latitude that is no number.
NominatimResponses ==
    { [failed |-> TRUE, results |-> <<>>],
      [failed |-> FALSE, results |-> <<>>],
      Found(<<"4", "8", ".", "8", "5", "6", "6">>, <<"2", ".", "3", "5", "2", "2">>),
      Found(<<"2", "1", ".", "4", "2", "2", "5">>, <<"3", "9", ".", "8", "2", "6", "2">>),
      Found(<<"9", "1", ".", "0">>, <<"0", ".", "0">>),
      Found(<<"0", ".", "0">>, <<"-", "1", "8", "0", ".", "5">>),
      Found(<<"x">>, <<"0">>) }

\* The math library's answers in the calls through MeccaApp and through the
\* C interface: a bearing of each sign, the smallest negative one, two
\* distances.
MathSample ==
    [atan2_deg : {FromDecimal(119, 1631), -Sixteenths(8), -1},
     haversine_km : {449500, Circumference \div 4}]

\* The c_double arguments of the C interface: in range, both bounds, just
\* past a bound, far past it, NaN and an infinity.
FfiLatitudes ==
    { KAABA_LATITUDE, Fin(488566, 10000), Fin(90, 1), Fin(-90, 1),
      Fin(900001, 10000), Fin(-91, 1), NaN, Infinity(FALSE) }

FfiLongitudes ==
    { KAABA_LONGITUDE, Fin(23522, 10000), Fin(180, 1), Fin(-180, 1),
      Fin(-1800001, 10000), Fin(181, 1), NaN, Infinity(TRUE) }

---------------------------------------------------------------------------
(* The state machine: a caller makes one call at a time and takes the      *)
(* result.                                                                 *)

NoValue == [none |-> TRUE]

Init ==
    /\ op = "idle"
    /\ arg = NoValue
    /\ env = NoValue
    /\ ret = NoValue
    /\ calls = <<>>
    /\ heap = <<>>

CallNormalizeBearing ==
    /\ op = "idle"
    /\ \E raw \in RawBearings :
        /\ op' = "normalize_bearing"
        /\ arg' = raw
        /\ env' = NoValue
        /\ ret' = normalize_bearing(raw)
        /\ calls' = <<>>
        /\ heap' = <<>>

CallBearingToDirection ==
    /\ op = "idle"
    /\ \E b \in Bearings :
        /\ op' = "bearing_to_direction"
        /\ arg' = b
        /\ env' = NoValue
        /\ ret' = direction_arm(b)
        /\ calls' = <<>>
        /\ heap' = <<>>

CallCalculateQibla ==
    /\ op = "idle"
    /\ \E location \in Locations, libm \in MathLibrary :
        /\ op' = "calculate_qibla"
        /\ arg' = location
        /\ env' = libm
        /\ ret' = calculate_qibla(location, libm)
        /\ calls' = <<>>
        /\ heap' = <<>>

CallCalculateCompassTable ==
    /\ op = "idle"
    /\ \E location \in Locations, libm \in MathLibrary :
        /\ op' = "calculate_compass_table"
        /\ arg' = location
        /\ env' = libm
        /\ ret' = calculate_compass_table(location, libm)
        /\ calls' = <<>>
        /\ heap' = <<>>

CallParseCoordinates ==
    /\ op = "idle"
    /\ \E input \in Inputs :
        /\ op' = "parse_coordinates"
        /\ arg' = input
        /\ env' = NoValue
        /\ ret' = parse_coordinates(input)
        /\ calls' = <<>>
        /\ heap' = <<>>

CallGetLocation ==
    /\ op = "idle"
    /\ \E input \in Queries, response \in NominatimResponses :
        \E location \in {get_location(input, response)} :
            /\ op' = "get_location"
            /\ arg' = input
            /\ env' = response
            /\ ret' = location.result
            /\ calls' = location.calls
            /\ heap' = <<>>

CallRun ==
    /\ op = "idle"
    /\ \E input \in Queries, response \in NominatimResponses,
          libm \in MathSample :
        \E qibla \in {run(input, response, libm)} :
            /\ op' = "run"
            /\ arg' = input
            /\ env' = [response |-> response, libm |-> libm]
            /\ ret' = qibla.result
            /\ calls' = qibla.calls
            /\ heap' = <<>>

CallCalculateQiblaFfi ==
    /\ op = "idle"
    /\ \E latitude \in FfiLatitudes, longitude \in FfiLongitudes,
          libm \in MathSample :
        \E result \in {calculate_qibla_ffi(heap, latitude, longitude, libm)} :
            /\ op' = "calculate_qibla_ffi"
            /\ arg' = [latitude |-> latitude, longitude |-> longitude]
            /\ env' = libm
            /\ ret' = result.ptr
            /\ calls' = result.calls
            /\ heap' = result.heap

\* The caller frees the result it holds, perhaps after freeing null.
CallFreeQiblaResult ==
    /\ \/ op = "calculate_qibla_ffi"
       \/ op = "free_qibla_result" /\ arg = null
    /\ \E result \in {null, ret} :
        /\ op' = "free_qibla_result"
        /\ arg' = result
        /\ heap' = free_qibla_result(heap, result)
        /\ calls' = <<>>
        /\ UNCHANGED <<env, ret>>

CallCalculateCompassTableFfi ==
    /\ op = "idle"
    /\ \E latitude \in FfiLatitudes, longitude \in FfiLongitudes,
          libm \in MathSample :
        \E result \in {calculate_compass_table_ffi(heap, latitude,
                                                   longitude, libm)} :
            /\ op' = "calculate_compass_table_ffi"
            /\ arg' = [latitude |-> latitude, longitude |-> longitude]
            /\ env' = libm
            /\ ret' = result.ptr
            /\ calls' = result.calls
            /\ heap' = result.heap

CallFreeCompassTable ==
    /\ \/ op = "calculate_compass_table_ffi"
       \/ op = "free_compass_table" /\ arg = null
    /\ \E table \in {null, ret} :
        /\ op' = "free_compass_table"
        /\ arg' = table
        /\ heap' = free_compass_table(heap, table)
        /\ calls' = <<>>
        /\ UNCHANGED <<env, ret>>

\* The caller is done: it holds no live allocation.
Return ==
    /\ op # "idle"
    /\ \A p \in DOMAIN heap : ~heap[p].live
    /\ op' = "idle"
    /\ arg' = NoValue
    /\ env' = NoValue
    /\ ret' = NoValue
    /\ calls' = <<>>
    /\ heap' = <<>>

Next ==
    \/ CallNormalizeBearing
    \/ CallBearingToDirection
    \/ CallCalculateQibla
    \/ CallCalculateCompassTable
    \/ CallParseCoordinates
    \/ CallGetLocation
    \/ CallRun
    \/ CallCalculateQiblaFfi
    \/ CallFreeQiblaResult
    \/ CallCalculateCompassTableFfi
    \/ CallFreeCompassTable
    \/ Return

Spec == Init /\ [][Next]_vars

---------------------------------------------------------------------------
(* Properties of the compass table                                         *)

TableReturned == op = "calculate_compass_table"

Optimal(entries) ==
    { i \in DOMAIN entries : entries[i].is_optimal_direction }

Minimal(entries) ==
    { i \in DOMAIN entries :
        \A j \in DOMAIN entries :
            entries[i].angular_difference <= entries[j].angular_difference }

First(S) == CHOOSE i \in S : \A j \in S : i <= j

\* C1: every table returned by calculate_compass_table (so every true bearing
\* in [0, 360)) has exactly one entry marked optimal, and that entry's
\* angular_difference is the minimum over the 16 entries.
C1_ExactlyOneOptimal ==
    TableReturned =>
        /\ Cardinality(Optimal(ret.entries)) = 1
        /\ Optimal(ret.entries) \subseteq Minimal(ret.entries)

\* A table for the true bearing 11.25, halfway between N and NNE.
C1_Witness ==
    /\ TableReturned
    /\ ret.qibla_bearing = Sixteenths(1)
    /\ Optimal(ret.entries) = {1}
    /\ Minimal(ret.entries) = {1, 2}

\* C2: when two headings share the minimal angular_difference, the one marked
\* optimal is the first of them in ascending heading order, and no other is
\* marked.
C2_TieFirstInHeadingOrder ==
    (TableReturned /\ Cardinality(Minimal(ret.entries)) >= 2) =>
        Optimal(ret.entries) = { First(Minimal(ret.entries)) }

\* The wraparound tie: true bearing 348.75, N (0) and NNW (337.5) both 11.25
\* away, N marked.
C2_Witness ==
    /\ TableReturned
    /\ ret.qibla_bearing = Sixteenths(31)
    /\ Minimal(ret.entries) = {1, 16}
    /\ ret.entries[1].is_optimal_direction
    /\ ~ret.entries[16].is_optimal_direction

\* C4: the table has exactly 16 entries, their bearings are 0, 22.5, ...,
\* 337.5 in this order, and every angular_difference lies in [0, 180].
C4_SixteenHeadings ==
    TableReturned =>
        /\ Len(ret.entries) = 16
        /\ \A i \in 1..16 :
            /\ ret.entries[i].bearing = (i - 1) * Sixteenths(2)
            /\ 0 <= ret.entries[i].angular_difference
            /\ ret.entries[i].angular_difference <= Deg180
        /\ \A i \in 1..15 : ret.entries[i].bearing < ret.entries[i + 1].bearing

\* A table whose true bearing lies beyond 337.5, so that the difference to N
\* is taken the short way round.
C4_Witness ==
    /\ TableReturned
    /\ ret.qibla_bearing > Sixteenths(30)
    /\ ret.qibla_bearing < Deg360
    /\ ret.entries[1].angular_difference < Sixteenths(2)
    /\ ret.entries[9].angular_difference > Sixteenths(14)

\* C5 as stated: for every location, the Kaaba included, every entry has
\* short_path_distance_km > 0 and long_path_distance_km > 0.
C5_DistancesPositive ==
    TableReturned =>
        \A i \in DOMAIN ret.entries :
            /\ ret.entries[i].short_path_distance_km > 0
            /\ ret.entries[i].long_path_distance_km > 0

\* C5 amended: every entry has long_path_distance_km > 0 and
\* short_path_distance_km >= 0, and short_path_distance_km is 0 exactly when
\* the direct distance is 0 and the entry's angular_difference is below 90.
C5_DistancesNonNegative ==
    TableReturned =>
        \A i \in DOMAIN ret.entries :
            /\ ret.entries[i].long_path_distance_km > 0
            /\ ret.entries[i].short_path_distance_km >= 0
            /\ ret.entries[i].short_path_distance_km = 0 <=>
                   (ret.direct_distance_km = 0
                    /\ ret.entries[i].angular_difference < Deg90)

\* The table at the Kaaba: N is 0 km away, E (exactly 90 off) is not.
C5_Witness ==
    /\ TableReturned
    /\ arg = [latitude |-> KAABA_LATITUDE, longitude |-> KAABA_LONGITUDE]
    /\ ret.direct_distance_km = 0
    /\ ret.entries[1].short_path_distance_km = 0
    /\ ret.entries[5].short_path_distance_km > 0

\* C6: long_path_distance_km is the same in all 16 entries and equals the
\* circumference minus the table's direct_distance_km; the table's
\* qibla_bearing and direct_distance_km are what calculate_qibla returns for
\* the same location.
C6_LongPathConstant ==
    TableReturned =>
        /\ \A i \in DOMAIN ret.entries :
            /\ ret.entries[i].long_path_distance_km =
                   ret.entries[1].long_path_distance_km
            /\ ret.entries[i].long_path_distance_km =
                   Circumference - ret.direct_distance_km
        /\ ret.qibla_bearing = calculate_qibla(arg, env).bearing
        /\ ret.direct_distance_km = calculate_qibla(arg, env).distance_km

\* A table for Paris, 4495 km from the Kaaba.
C6_Witness ==
    /\ TableReturned
    /\ arg.latitude = Fin(488566, 10000)
    /\ ret.direct_distance_km = 449500
    /\ ret.entries[16].long_path_distance_km = Circumference - 449500

---------------------------------------------------------------------------
(* Properties of the bearing                                               *)

\* The representative of raw modulo 360 in [0, 360), ((raw mod 360) + 360)
\* mod 360, in exact arithmetic.
ExactNormalize(raw) == ((raw % Deg360) + Deg360) % Deg360

\* C3 as stated: for every raw bearing in [-180, 180] normalize_bearing
\* returns b with 0 <= b < 360 that is the value of ((raw mod 360) + 360) mod
\* 360 (to the precision of the format), and the bearing of calculate_qibla
\* is in [0, 360).
C3_NormalizedBelow360 ==
    /\ op = "normalize_bearing" =>
        /\ 0 <= ret /\ ret < Deg360
        /\ ret = Round(ExactNormalize(arg))
    /\ op = "calculate_qibla" =>
        (0 <= ret.bearing /\ ret.bearing < Deg360)

\* The half-open sectors of the eight labels.
Sectors ==
    { <<"N", Sixteenths(30), Deg360>>,          <<"N", 0, Sixteenths(2)>>,
      <<"NE", Sixteenths(2), Sixteenths(6)>>,   <<"E", Sixteenths(6), Sixteenths(10)>>,
      <<"SE", Sixteenths(10), Sixteenths(14)>>, <<"S", Sixteenths(14), Sixteenths(18)>>,
      <<"SW", Sixteenths(18), Sixteenths(22)>>, <<"W", Sixteenths(22), Sixteenths(26)>>,
      <<"NW", Sixteenths(26), Sixteenths(30)>> }

SectorsOf(b) == { s \in Sectors : s[2] <= b /\ b < s[3] }

\* C7: every bearing in [0, 360) lies in exactly one sector, bearing_to_
\* direction returns that sector's label, and never through the fallback arm.
C7_SectorLabel ==
    op = "bearing_to_direction" =>
        /\ Cardinality(SectorsOf(arg)) = 1
        /\ \A s \in SectorsOf(arg) : ret[1] = s[1]
        /\ ret[2] # "fallback"

\* The boundary 22.5 belongs to NE.
C7_Witness ==
    /\ op = "bearing_to_direction"
    /\ arg = Sixteenths(2)
    /\ ret[1] = "NE"

\* C8 as stated: 337.4999 gives "N" and 337.5 gives "NW".
C8_BoundaryAsStated ==
    op = "bearing_to_direction" =>
        /\ arg = FromDecimal(337, 4999) => ret[1] = "N"
        /\ arg = Sixteenths(30) => ret[1] = "NW"

\* C8 amended: 337.4999 gives "NW" and 337.5 gives "N".
C8_Boundary ==
    op = "bearing_to_direction" =>
        /\ arg = FromDecimal(337, 4999) => ret[1] = "NW"
        /\ arg = Sixteenths(30) => ret[1] = "N"

\* The call with 337.4999, which is below 337.5 in the format.
C8_Witness ==
    /\ op = "bearing_to_direction"
    /\ arg = FromDecimal(337, 4999)
    /\ arg < Sixteenths(30)
    /\ ret[1] = "NW"

---------------------------------------------------------------------------
(* Properties of parse_coordinates                                         *)

Commas(s) == { i \in 1..Len(s) : s[i] = "," }

\* The text before and after the only comma, without the blanks around it.
Stripped(f) ==
    LET solid == { i \in 1..Len(f) : f[i] # " " }
    IN  IF solid = {} THEN <<>>
        ELSE SubSeq(f, CHOOSE i \in solid : \A j \in solid : i <= j,
                       CHOOSE i \in solid : \A j \in solid : i >= j)

LatitudeText(s) == Stripped(SubSeq(s, 1, First(Commas(s)) - 1))

LongitudeText(s) == Stripped(SubSeq(s, First(Commas(s)) + 1, Len(s)))

\* Digits with at most one dot and at least one digit.
IsDecimal(b) ==
    /\ \A i \in 1..Len(b) : b[i] \in Digits \cup {"."}
    /\ Cardinality({ i \in 1..Len(b) : b[i] = "." }) <= 1
    /\ \E i \in 1..Len(b) : b[i] \in Digits

\* An optionally signed, non-empty run of digits.
IsExponent(x) ==
    \E p \in {0, 1} :
        /\ p = 1 => (Len(x) >= 1 /\ x[1] \in {"+", "-"})
        /\ Len(x) > p
        /\ \A i \in (p + 1)..Len(x) : x[i] \in Digits

\* A number: an optional sign, then inf, infinity, nan, or a decimal with an
\* optional exponent.
IsNumber(t) ==
    \E p \in {0, 1} :
        /\ p = 1 => (Len(t) >= 1 /\ t[1] \in {"+", "-"})
        /\ LET b == SubSeq(t, p + 1, Len(t))
               low == [i \in 1..Len(b) |-> ToLower(b[i])]
           IN  \/ low \in { <<"i", "n", "f">>, <<"n", "a", "n">>,
                            <<"i", "n", "f", "i", "n", "i", "t", "y">> }
               \/ IsDecimal(b)
               \/ \E k \in 1..Len(b) :
                      /\ b[k] \in {"e", "E"}
                      /\ IsDecimal(SubSeq(b, 1, k - 1))
                      /\ IsExponent(SubSeq(b, k + 1, Len(b)))

ValueOf(t) == parse_f64(t).value

Within(v, bound) == v.kind = "fin" /\ -(bound * v.d) <= v.n /\ v.n <= bound * v.d

TwoNumbers(s) ==
    /\ Cardinality(Commas(s)) = 1
    /\ IsNumber(LatitudeText(s))
    /\ IsNumber(LongitudeText(s))

\* C9: parse_coordinates returns Ok(Location{lat, lon}) exactly when the
\* input has two comma-separated fields that are numbers once trimmed, with
\* lat in [-90, 90] and lon in [-180, 180]; otherwise an error and no
\* Location.
C9_OkExactlyWhenValid ==
    op = "parse_coordinates" =>
        /\ ret.ok <=>
              /\ TwoNumbers(arg)
              /\ Within(ValueOf(LatitudeText(arg)), 90)
              /\ Within(ValueOf(LongitudeText(arg)), 180)
        /\ ret.ok =>
              /\ ret.location = [latitude |-> ValueOf(LatitudeText(arg)),
                                 longitude |-> ValueOf(LongitudeText(arg))]
              /\ ret.error = ""
        /\ ~ret.ok => (ret.location = NoLocation /\ ret.error # "")

\* "  40.7128  ,  -74.0060  " parses to (40.7128, -74.006).
C9_Witness ==
    /\ op = "parse_coordinates"
    /\ Len(arg) = 24
    /\ arg[1] = " "
    /\ ret.ok
    /\ ret.location = [latitude |-> Fin(407128, 10000),
                       longitude |-> Fin(-74006, 1000)]

FormatError == "Expected format: latitude,longitude"

FloatErrors == {"invalid float literal", "cannot parse float from empty string"}

\* C10 as stated: the format error when the field count is not two and when
\* a field is not a number; the error naming the bound when a numeric field is
\* out of range.
C10_ErrorsAsStated ==
    op = "parse_coordinates" =>
        /\ ~TwoNumbers(arg) => ret.error = FormatError
        /\ (TwoNumbers(arg) /\ ~Within(ValueOf(LatitudeText(arg)), 90)) =>
              ret.error = "Latitude must be between -90 and 90 degrees"
        /\ (/\ TwoNumbers(arg)
            /\ Within(ValueOf(LatitudeText(arg)), 90)
            /\ ~Within(ValueOf(LongitudeText(arg)), 180)) =>
              ret.error = "Longitude must be between -180 and 180 degrees"

\* C10 amended: the format error exactly when the field count is not two;
\* with two fields of which one is not a number, the float parser's own
\* error; with two numbers, the latitude error when the latitude is out of
\* range, else the longitude error when the longitude is.
C10_Errors ==
    op = "parse_coordinates" =>
        /\ ret.error = FormatError <=> Cardinality(Commas(arg)) # 1
        /\ (Cardinality(Commas(arg)) = 1 /\ ~TwoNumbers(arg)) =>
              ret.error \in FloatErrors
        /\ (TwoNumbers(arg) /\ ~Within(ValueOf(LatitudeText(arg)), 90)) =>
              ret.error = "Latitude must be between -90 and 90 degrees"
        /\ (/\ TwoNumbers(arg)
            /\ Within(ValueOf(LatitudeText(arg)), 90)
            /\ ~Within(ValueOf(LongitudeText(arg)), 180)) =>
              ret.error = "Longitude must be between -180 and 180 degrees"

\* "invalid, coordinates": two fields, neither a number.
C10_Witness ==
    /\ op = "parse_coordinates"
    /\ Len(arg) = 20
    /\ arg[1] = "i"
    /\ Cardinality(Commas(arg)) = 1
    /\ ret.error = "invalid float literal"

---------------------------------------------------------------------------
(* Properties of the two path distances                                    *)

\* C15: short_path_distance_km follows a three-case policy on the entry's
\* angular_difference a and the direct distance d.  Below 90 it is d divided
\* by max(cos a, 0.001), so between d and 1000 d, and d itself when a is 0;
\* above 90 it is the circumference minus d, the entry's long path; at
\* exactly 90 it is the circumference.
C15_ShortPathPolicy ==
    TableReturned =>
        \A i \in DOMAIN ret.entries :
            LET a == ret.entries[i].angular_difference
                s == ret.entries[i].short_path_distance_km
                d == ret.direct_distance_km
                c == Max(cos_of_degrees(a), 1)
            IN  /\ a < Deg90 =>
                    /\ s * c <= d * 1000
                    /\ d * 1000 < (s + 1) * c
                    /\ d <= s
                    /\ s <= 1000 * d
                    /\ a = 0 => s = d
                /\ a > Deg90 =>
                    /\ s = Circumference - d
                    /\ s = ret.entries[i].long_path_distance_km
                /\ a = Deg90 => s = Circumference

\* True bearing 0 at 4495 km: heading N is the direct path, heading E is
\* perpendicular, heading S is the long path.
C15_Witness ==
    /\ TableReturned
    /\ ret.qibla_bearing = 0
    /\ ret.direct_distance_km = 449500
    /\ ret.entries[1].short_path_distance_km = 449500
    /\ ret.entries[5].angular_difference = Deg90
    /\ ret.entries[5].short_path_distance_km = Circumference
    /\ ret.entries[9].short_path_distance_km = Circumference - 449500

\* C16: in every entry of every table the short path is no longer than the
\* long path: short_path_distance_km <= long_path_distance_km.
C16_ShortWithinLong ==
    TableReturned =>
        \A i \in DOMAIN ret.entries :
            ret.entries[i].short_path_distance_km
                <= ret.entries[i].long_path_distance_km

\* C18: when the true bearing is in [0, 360) the table has an optimal entry,
\* its angular_difference is at most 11.25, and every entry that is not
\* optimal has an angular_difference at least as large.
C18_OptimalWithinHalfStep ==
    (TableReturned /\ ret.qibla_bearing >= 0 /\ ret.qibla_bearing < Deg360) =>
        /\ Optimal(ret.entries) # {}
        /\ \A i \in Optimal(ret.entries) :
            /\ ret.entries[i].angular_difference <= Sixteenths(1)
            /\ \A j \in DOMAIN ret.entries \ Optimal(ret.entries) :
                ret.entries[j].angular_difference
                    >= ret.entries[i].angular_difference

\* True bearing 348.75, halfway between NNW and N: N is optimal at exactly
\* 11.25, NNW is as close and not optimal.
C18_Witness ==
    /\ TableReturned
    /\ ret.qibla_bearing = Sixteenths(31)
    /\ Optimal(ret.entries) = {1}
    /\ ret.entries[1].angular_difference = Sixteenths(1)
    /\ ret.entries[16].angular_difference = Sixteenths(1)

---------------------------------------------------------------------------
(* Properties of MeccaApp                                                  *)

Resolved == op \in {"get_location", "run"}

Response == IF op = "run" THEN env.response ELSE env

Geocodings == { i \in DOMAIN calls : calls[i].callee = "geocode" }

\* What the caller receives is the outcome `outcome` of resolving the input:
\* get_location returns it; run returns its error, or hands its location to
\* the calculator and returns the calculator's result.
Receives(outcome) ==
    IF op = "get_location" THEN ret = outcome
    ELSE IF outcome.ok
    THEN /\ ret.ok
         /\ calls[Len(calls)] = Call("calculate_qibla", outcome.location)
         /\ ret.qibla = calculate_qibla(outcome.location, env.libm)
    ELSE ~ret.ok /\ ret.error = outcome.error

\* C11: get_location and run parse the input as coordinates first.  When the
\* parse succeeds, the parsed location is what the caller receives and the
\* geocoding service is not called.  When it fails, the geocoding service is
\* called exactly once, after the parse, with the original input, and its
\* result or error is what the caller receives.
C11_ParseFirstThenGeocode ==
    Resolved =>
        /\ calls # <<>>
        /\ calls[1] = Call("parse_coordinates", arg)
        /\ parse_coordinates(arg).ok =>
            /\ Geocodings = {}
            /\ Receives(parse_coordinates(arg))
        /\ ~parse_coordinates(arg).ok =>
            /\ Geocodings = {2}
            /\ calls[2] = Call("geocode", arg)
            /\ Receives(geocode(arg, Response))

\* "paris" is no coordinate pair: the service is asked and answers Paris.
C11_Witness ==
    /\ op = "get_location"
    /\ arg = <<"p", "a", "r", "i", "s">>
    /\ ~parse_coordinates(arg).ok
    /\ calls = <<Call("parse_coordinates", arg), Call("geocode", arg)>>
    /\ ret.ok
    /\ ret.location.latitude = Fin(488566, 10000)

RangeErrors == { range_error("latitude"), range_error("longitude") }

\* C12: an error raised while the input is resolved is what the caller of
\* get_location or run receives, never another outcome: with coordinates out
\* of range the caller receives the range error whatever the geocoding
\* service answers ("91.0,0.0" is the case in point), and when the service
\* is asked and fails the caller receives the service's error.
C12_ErrorsReturned ==
    Resolved =>
        /\ parse_coordinates(arg).error \in RangeErrors =>
            /\ ~ret.ok
            /\ ret.error = parse_coordinates(arg).error
        /\ (Geocodings # {} /\ ~geocode(arg, Response).ok) =>
            /\ ~ret.ok
            /\ ret.error = geocode(arg, Response).error

Calculations ==
    { i \in DOMAIN calls :
        calls[i].callee \in {"calculate_qibla", "calculate_compass_table"} }

\* C13: on every path through MeccaApp and the C interface, the location
\* handed to the calculator has its latitude in [-90, 90] and its longitude
\* in [-180, 180].
C13_CalculatorGetsValidCoordinates ==
    \A i \in Calculations :
        /\ Within(calls[i].with.latitude, 90)
        /\ Within(calls[i].with.longitude, 180)

---------------------------------------------------------------------------
(* Properties of the C interface                                           *)

FreeOps == {"free_qibla_result", "free_compass_table"}

\* C14: one call to the matching free function releases every allocation of
\* an FFI call, successful or not (the record, its strings, the entries
\* array and each entry's string), each exactly once and with the capacity it
\* was allocated with: afterwards none is live and none was freed twice.
\* Freeing the null pointer changes nothing.
C14_ReleasedExactlyOnce ==
    [][op' \in FreeOps =>
          IF arg' = null
          THEN heap' = heap
          ELSE /\ heap # <<>>
               /\ DOMAIN heap' = DOMAIN heap
               /\ \A p \in DOMAIN heap :
                    /\ heap[p].live
                    /\ heap[p].frees = 0
                    /\ ~heap'[p].live
                    /\ heap'[p].frees = 1
                    /\ ~heap'[p].mismatched]_vars

\* A freed table of a valid location: the record, the array and the sixteen
\* strings.
C14_Witness ==
    /\ op = "free_compass_table"
    /\ arg # null
    /\ Len(heap) = 18
    /\ \A p \in DOMAIN heap : heap[p].frees = 1 /\ ~heap[p].live

FfiReturned == op \in {"calculate_qibla_ffi", "calculate_compass_table_ffi"}

OutOfRange == ~Within(arg.latitude, 90) \/ ~Within(arg.longitude, 180)

IsString(p) == p # null /\ heap[p].type = "CString" /\ heap[p].live

\* The payload of the record r: the direction string of a QiblaResult; the
\* array of a CompassTableC with its sixteen entries, each with its string.
Payload(r) ==
    IF op = "calculate_qibla_ffi"
    THEN IsString(r.direction)
    ELSE /\ r.entries # null
         /\ r.entries_count = 16
         /\ Len(heap[r.entries].value) = 16
         /\ \A i \in 1..16 :
              /\ IsString(heap[r.entries].value[i].direction)
              /\ heap[heap[r.entries].value[i].direction].value
                     = compass_directions[i][1]

NoPayload(r) ==
    IF op = "calculate_qibla_ffi"
    THEN r.direction = null /\ r.bearing = 0 /\ r.distance_km = 0
    ELSE /\ r.entries = null
         /\ r.entries_count = 0
         /\ r.latitude = Fin(0, 1)
         /\ r.longitude = Fin(0, 1)
         /\ r.qibla_bearing = 0
         /\ r.direct_distance_km = 0

\* C17: the record an FFI call returns has success = true exactly when its
\* error_message is null, and exactly when its payload is present (a direction
\* string; an entries array of 16 entries, none skipped).  For a latitude
\* outside [-90, 90] or a longitude outside [-180, 180], NaN included, it has
\* success = false, an error message, a null payload pointer, a zero
\* entries_count and zero numbers, and the calculator was not called.
C17_RecordConsistent ==
    FfiReturned =>
        /\ ret # null
        /\ heap[ret].value.success <=> heap[ret].value.error_message = null
        /\ heap[ret].value.success <=> Payload(heap[ret].value)
        /\ OutOfRange =>
            /\ ~heap[ret].value.success
            /\ IsString(heap[ret].value.error_message)
            /\ NoPayload(heap[ret].value)
            /\ Calculations = {}

\* A NaN latitude with a longitude in range.
C17_Witness ==
    /\ op = "calculate_compass_table_ffi"
    /\ arg = [latitude |-> NaN, longitude |-> KAABA_LONGITUDE]
    /\ ~heap[ret].value.success
    /\ heap[ret].value.entries = null
    /\ heap[heap[ret].value.error_message].value = "Invalid coordinates"

=============================================================================
